---- MODULE Spec2Model ----
(***************************************************************************)
(* State-machine model of src/src/hip_module.cpp: the module loader        *)
(* (hipModuleLoad, hipModuleLoadData), the per-module function cache       *)
(* (ihipModuleGetSymbol), the kernel launch path (ihipModuleLaunchKernel   *)
(* and its two entry points) and hipModuleUnload.                          *)
(*                                                                         *)
(* Host threads call the entry points; a call is a sequence of steps, one  *)
(* per access to state another thread can see.  The HSA runtime and the    *)
(* ELF reader are modelled by what the code observes of them: a status     *)
(* that may be success or failure, and the state of the executable.        *)
(***************************************************************************)
EXTENDS Integers, Sequences, FiniteSets, TLC

\* ------------------------------------------------------------------ bounds
NumThreads == 2
MaxModules == 2
MaxFuncs == 3
MaxDispatch == 2
MaxParams == 2
MaxSize == 2
MaxAlign == 2
MaxTotal == 4
MaxPtr == 2
MaxCalls == 4
MaxShnum == 2
MaxShOffset == 3
MaxShSize == 2
MaxShentsize == 1

\* --------------------------------------------------------- program values
NULL == 0
HIP_LAUNCH_PARAM_BUFFER_POINTER == 1
HIP_LAUNCH_PARAM_BUFFER_SIZE == 2
HIP_LAUNCH_PARAM_END == 3

Threads == 1..NumThreads
ModIds == 1..MaxModules
FuncIds == 1..MaxFuncs
DispIds == 1..MaxDispatch

\* The kernels of the image; the names a caller asks for: a kernel of the
\* image, one name the image does not contain, and the null name pointer.
KernelNames == {"k1", "k2"}
AbsentName == "nokernel"
NullName == "NULL"
LookupNames == {"k1", AbsentName, NullName}

\* Names hipModuleGetGlobal is asked for.
GlobalNames == {"k1", AbsentName, NullName}

\* Files hipModuleLoad is given: a code object ELFIO can parse, a code
\* object without kernels whose undefined symbols the host cannot back, and
\* a path that cannot be read.
Files == {"A.co", "B.co", "missing.co"}
Images == {"NULL", "A.img"}

\* elfio::load(fname) of hipModuleLoad.
ElfLoads(fname) == fname \in {"A.co", "B.co"}

\* copy_names_of_undefined_symbols: the undefined, named symbols of the
\* code object's dynamic symbol table, in table order.
copy_names_of_undefined_symbols(fname) ==
    CASE fname = "A.co" -> <<"g1">>
      [] fname = "B.co" -> <<"gz", "gabsent">>
      [] OTHER          -> <<>>

\* find_symbol_address: (address, size) of the host symbol, (0, 0) when the
\* host symbol table has no such name.  The host table holds g1 (four
\* bytes) and gz (a symbol of size zero).
find_symbol_address(x) ==
    CASE x = "g1" -> <<64, 4>>
      [] x = "gz" -> <<72, 0>>
      [] OTHER    -> <<0, 0>>

\* The kernel symbols the backend finds in a loaded code object.
KernelsOf(image) ==
    IF image \in {"A.co", "A.img"} THEN KernelNames ELSE {}

VARIABLES
    pc,          \* pc[t]: where thread t is in its current call
    loc,         \* loc[t]: the locals of thread t's current call
    h,           \* h[t]: the caller's hipModule_t variable (*module)
    ret,         \* the call that returned last: thread, entry point, status
    mods,        \* mods[m]: the ihipModule_t objects
    funcs,       \* funcs[f]: the ihipModuleSymbol_t objects
    inflight,    \* dispatches submitted and not yet complete
    nDispatch,   \* number of dispatches submitted so far
    last,        \* what the last launch did
    kernelArguments, \* the process-wide name -> ihipKernArgInfo map
    globals,     \* the process-wide list of pinned mappings
    code_readers,\* the process-wide list of code-object readers
    resolved,    \* history: <<module, name, function>> of successful lookups
    preUnload,   \* history: dispatches in flight when unload(m) was called
    aborted,     \* the process was aborted (failed assert, null dereference)
    nCalls,      \* number of entry-point calls made so far
    ctx,         \* ctx[t]: thread t has an active device context
    mtx,         \* the holders of the two function-local static mutexes
    elf          \* the section-header table ElfSize is given, and its result

vars == <<pc, loc, h, ret, mods, funcs, inflight, nDispatch, last,
          kernelArguments, globals, code_readers, resolved, preUnload, aborted,
          nCalls, ctx, mtx, elf>>

\* ------------------------------------------------------------ data shapes
NoLoc == [m |-> NULL, name |-> "", fname |-> "", sym |-> NULL, n |-> 0,
          i |-> 0, cache0 |-> <<>>, hit |-> FALSE, entry |-> ""]

\* new ihipModule_t: the executable handle is not initialized.  failed is
\* the first step of the load that failed, pinned the number of host
\* ranges the load has pinned, reader whether the load has made a
\* code-object reader.
NewModule == [state |-> "live", exec |-> "invalid", loaded |-> FALSE,
              defined |-> {}, funcTrack |-> <<>>, image |-> "",
              lateBind |-> FALSE, published |-> FALSE,
              unloadCalled |-> FALSE, unloadReturned |-> FALSE,
              failed |-> "", pinned |-> 0, reader |-> FALSE]

\* A step of the load of module record mr has failed.
Fail(mr, what) == IF mr.failed = "" THEN [mr EXCEPT !.failed = what] ELSE mr

UnallocModule == [NewModule EXCEPT !.state = "unalloc"]

UnallocFunc == [state |-> "unalloc", name |-> "", mod |-> NULL]

NoLaunch == [called |-> FALSE]

NoElf == [called |-> FALSE]

\* Both static mutexes (lines 274 and 306) unlocked.
Unlocked == [globals |-> NULL, code_readers |-> NULL]

FreeModIds == {m \in ModIds : mods[m].state = "unalloc"}
FreeFuncIds == {f \in FuncIds : funcs[f].state = "unalloc"}

Min(S) == CHOOSE x \in S : \A y \in S : x <= y

\* ------------------------------------------------ the execution context
\* hsa_executable_create_alt / hsa_executable_create: a fresh, unfrozen
\* executable, or no handle when the backend fails.
hsa_executable_create(mr, ok) ==
    IF ok THEN [mr EXCEPT !.exec = "building"] ELSE Fail(mr, "create")

\* hsa_executable_agent_global_variable_define: legal only while building;
\* a call against a frozen executable is recorded in lateBind.
hsa_executable_agent_global_variable_define(mr, x) ==
    CASE mr.exec = "building" -> [mr EXCEPT !.defined = @ \cup {x}]
      [] mr.exec = "frozen"   -> [mr EXCEPT !.lateBind = TRUE]
      [] OTHER                -> mr

\* hsa_executable_load_agent_code_object / hsa_executable_load_code_object.
hsa_executable_load_code_object(mr, ok) ==
    CASE mr.exec = "building" /\ ok -> [mr EXCEPT !.loaded = TRUE]
      [] mr.exec = "frozen"         -> [mr EXCEPT !.lateBind = TRUE]
      [] OTHER                      -> Fail(mr, "load")

\* hsa_executable_freeze: building -> frozen.
hsa_executable_freeze(mr, ok) ==
    IF mr.exec = "building" /\ ok THEN [mr EXCEPT !.exec = "frozen"]
    ELSE Fail(mr, "freeze")

\* hsa_executable_destroy: succeeds on a valid handle.
hsa_executable_destroy(mr) ==
    IF mr.exec \in {"building", "frozen"}
    THEN [mr EXCEPT !.exec = "destroyed"] ELSE mr

\* hsa_executable_get_symbol: the kernel symbol is found in a live
\* executable that holds the code object.
hsa_executable_get_symbol(mr, name) ==
    /\ mr.exec \in {"building", "frozen"}
    /\ mr.loaded
    /\ name \in KernelsOf(mr.image)

\* ------------------------------------------------------------ call frames
\* Thread t's call of entry point `entry`, made for the name, file or
\* image `arg`, returns `status`.
Return(t, entry, arg, status) ==
    /\ pc' = [pc EXCEPT ![t] = "idle"]
    /\ ret' = [t |-> t, op |-> entry, arg |-> arg, status |-> status,
               hit |-> FALSE, out |-> "none"]
    /\ loc' = [loc EXCEPT ![t] = NoLoc]

\* Thread t's get-function call returns hipSuccess with an entry of the
\* cache (line 422).
ReturnCached(t, name) ==
    /\ pc' = [pc EXCEPT ![t] = "idle"]
    /\ ret' = [t |-> t, op |-> "hipModuleGetFunction", arg |-> name,
               status |-> "hipSuccess", hit |-> TRUE, out |-> "none"]
    /\ loc' = [loc EXCEPT ![t] = NoLoc]

\* Thread t's call goes on at `label` with locals `l`.
Goto(t, label, l) ==
    /\ pc' = [pc EXCEPT ![t] = label]
    /\ ret' = ret
    /\ loc' = [loc EXCEPT ![t] = l]

\* A thread between calls makes its next call.
Call(t) ==
    /\ ~aborted
    /\ pc[t] = "idle"
    /\ nCalls < MaxCalls
    /\ nCalls' = nCalls + 1

\* find_section_if: the code object has a dynamic symbol table and the
\* process image a symbol table.
find_section_if(fname) == fname \in {"A.co", "B.co"}

\* ---------------------------------------------------------- hipModuleLoad
\* The load with the executable frozen as soon as it is created, before the
\* globals are defined and the code object is loaded.
hipModuleLoad_FreezeFirst(t, fname, createOk) ==
    /\ Call(t)
    /\ FreeModIds # {}
    /\ LET m == Min(FreeModIds)
           created == hsa_executable_freeze(
                          hsa_executable_create(NewModule, createOk), TRUE)
       IN /\ h' = [h EXCEPT ![t] = m]
          /\ IF ~ctx[t]
             THEN /\ mods' = [mods EXCEPT ![m] = NewModule]
                  /\ Return(t, "hipModuleLoad", fname, "hipErrorInvalidContext")
             ELSE IF ~ElfLoads(fname)
                  THEN /\ mods' = [mods EXCEPT ![m] = Fail(created, "parse")]
                       /\ Return(t, "hipModuleLoad", fname, "hipErrorFileNotFound")
                  ELSE /\ mods' = [mods EXCEPT ![m] = created]
                       /\ Goto(t, "load_bind",
                               [NoLoc EXCEPT !.m = m, !.fname = fname, !.i = 1])
    /\ UNCHANGED <<funcs, inflight, nDispatch, last, kernelArguments,
                   globals, code_readers, resolved, preUnload, aborted, ctx, mtx, elf>>

\* Lines 317-342: the module is allocated and stored through `module`
\* before anything is checked; the status of hsa_executable_create_alt is
\* not looked at.
hipModuleLoad(t, fname, createOk) ==
    /\ Call(t)
    /\ FreeModIds # {}
    /\ LET m == Min(FreeModIds)
           created == hsa_executable_create(NewModule, createOk)
       IN /\ h' = [h EXCEPT ![t] = m]
          /\ IF ~ctx[t]
             THEN /\ mods' = [mods EXCEPT ![m] = NewModule]
                  /\ Return(t, "hipModuleLoad", fname, "hipErrorInvalidContext")
             ELSE IF ~ElfLoads(fname)
                  THEN /\ mods' = [mods EXCEPT ![m] = Fail(created, "parse")]
                       /\ Return(t, "hipModuleLoad", fname, "hipErrorFileNotFound")
                  ELSE /\ mods' = [mods EXCEPT ![m] = created]
                       /\ Goto(t, "load_bind",
                               [NoLoc EXCEPT !.m = m, !.fname = fname, !.i = 1])
    /\ UNCHANGED <<funcs, inflight, nDispatch, last, kernelArguments,
                   globals, code_readers, resolved, preUnload, aborted, ctx, mtx, elf>>

\* std::vector::push_back / emplace_back as two accesses: the element is
\* written after the end that was read (n), and the size becomes that end
\* plus one.
push_back(ft, n, x) ==
    Append(SubSeq(ft, 1, IF n <= Len(ft) THEN n ELSE Len(ft)), x)

globals_push(n, x) == push_back(globals, n, x)

\* The constructor of a lock_guard with no mutex behind it: it never waits.
lock_guard_NoMutex(which) == TRUE

\* lock_guard<std::mutex> lck{mtx} (lines 276 and 308): the constructor
\* returns once the mutex is free.
lock_guard(which) == mtx[which] = NULL

\* Lines 254-276, one undefined symbol per step: look the name up in the
\* host symbol table, assert the address (the assert is compiled out of a
\* build with NDEBUG: asserts), pin the range, define the global in the
\* executable, take the mutex of the process-wide list and read its end.
associate_code_object_symbols_with_host_allocation(t, asserts) ==
    /\ ~aborted
    /\ pc[t] = "load_bind"
    /\ LET m == loc[t].m
           undefined_symbols ==
               IF find_section_if(loc[t].fname)
               THEN copy_names_of_undefined_symbols(loc[t].fname) ELSE <<>>
           i == loc[t].i
       IN IF i > Len(undefined_symbols)
          THEN /\ pc' = [pc EXCEPT ![t] = "load_code"]
               /\ UNCHANGED <<loc, mods, mtx, aborted>>
          ELSE LET x == undefined_symbols[i]
                   tmp == find_symbol_address(x)
               IN IF tmp[1] = 0 /\ asserts
                  THEN /\ aborted' = TRUE
                       /\ UNCHANGED <<pc, loc, mods, mtx>>
                  ELSE /\ lock_guard("globals")
                       /\ mods' = [mods EXCEPT ![m] =
                              [hsa_executable_agent_global_variable_define(@, x)
                                  EXCEPT !.pinned = @ + 1]]
                       /\ mtx' = [mtx EXCEPT !.globals = t]
                       /\ pc' = [pc EXCEPT ![t] = "load_emplace"]
                       /\ loc' = [loc EXCEPT ![t].n = Len(globals)]
                       /\ UNCHANGED aborted
    /\ UNCHANGED <<h, ret, funcs, inflight, nDispatch, last, kernelArguments,
                   globals, code_readers, resolved, preUnload, nCalls, ctx,
                   elf>>

\* Lines 277-278: globals.emplace_back(p, hsa_amd_memory_unlock) after the
\* end that was read; the lock_guard's destructor unlocks; next symbol.
globals_emplace_back(t) ==
    /\ ~aborted
    /\ pc[t] = "load_emplace"
    /\ LET x == copy_names_of_undefined_symbols(loc[t].fname)[loc[t].i]
           tmp == find_symbol_address(x)
       IN globals' = globals_push(loc[t].n,
                         [name |-> x, addr |-> tmp[1], size |-> tmp[2]])
    /\ mtx' = [mtx EXCEPT !.globals = NULL]
    /\ pc' = [pc EXCEPT ![t] = "load_bind"]
    /\ loc' = [loc EXCEPT ![t].i = @ + 1, ![t].n = 0]
    /\ UNCHANGED <<h, ret, mods, funcs, inflight, nDispatch, last,
                   kernelArguments, code_readers, resolved, preUnload,
                   aborted, nCalls, ctx, elf>>

\* Lines 296-301: the reader is created from the file and the code object
\* is loaded into the executable; neither status is looked at.
load_code_object(t, readerOk, loadOk) ==
    /\ ~aborted
    /\ pc[t] = "load_code"
    /\ LET m == loc[t].m
           r == hsa_executable_load_code_object(mods[m], readerOk /\ loadOk)
       IN mods' = [mods EXCEPT ![m] =
              [r EXCEPT !.image = IF r.loaded THEN loc[t].fname ELSE @,
                        !.reader = TRUE]]
    /\ pc' = [pc EXCEPT ![t] = "load_freeze"]
    /\ UNCHANGED <<loc, h, ret, funcs, inflight, nDispatch, last,
                   kernelArguments, globals, code_readers, resolved,
                   preUnload, aborted, nCalls, ctx, mtx, elf>>

\* Lines 303-308: freeze (status not looked at), take the mutex of the
\* process-wide list of readers and read its end.
freeze_executable(t, freezeOk) ==
    /\ ~aborted
    /\ pc[t] = "load_freeze"
    /\ lock_guard("code_readers")
    /\ mods' = [mods EXCEPT ![loc[t].m] = hsa_executable_freeze(@, freezeOk)]
    /\ mtx' = [mtx EXCEPT !.code_readers = t]
    /\ pc' = [pc EXCEPT ![t] = "load_reader"]
    /\ loc' = [loc EXCEPT ![t].n = Len(code_readers)]
    /\ UNCHANGED <<h, ret, funcs, inflight, nDispatch, last, kernelArguments,
                   globals, code_readers, resolved, preUnload, aborted,
                   nCalls, ctx, elf>>

\* Lines 309-310 and 371: code_readers.push_back(move(tmp)), unlock, return
\* hipSuccess.
code_readers_push_back(t) ==
    /\ ~aborted
    /\ pc[t] = "load_reader"
    /\ code_readers' = push_back(code_readers, loc[t].n, loc[t].m)
    /\ mtx' = [mtx EXCEPT !.code_readers = NULL]
    /\ mods' = [mods EXCEPT ![loc[t].m].published = TRUE]
    /\ Return(t, "hipModuleLoad", loc[t].fname, "hipSuccess")
    /\ UNCHANGED <<h, funcs, inflight, nDispatch, last, kernelArguments,
                   globals, resolved, preUnload, aborted, nCalls, ctx, elf>>

\* ------------------------------------------------------ hipModuleLoadData
\* Lines 636-673: null checks, the module is allocated and stored through
\* `module`, the context is dereferenced without a check, then memory
\* allocation, deserialization and executable creation, each checked.
\* The dereference of a null context (line 643) is undefined: the process
\* is aborted (crash) or the call goes on with whatever it read.
hipModuleLoadData(t, image, crash, allocOk, deserOk, createOk) ==
    /\ Call(t)
    /\ IF image = "NULL"
       THEN /\ Return(t, "hipModuleLoadData", image, "hipErrorNotInitialized")
            /\ UNCHANGED <<h, mods, aborted>>
       ELSE /\ FreeModIds # {}
            /\ LET m == Min(FreeModIds)
               IN /\ h' = [h EXCEPT ![t] = m]
                  /\ IF ~ctx[t] /\ crash
                     THEN /\ mods' = [mods EXCEPT ![m] = NewModule]
                          /\ aborted' = TRUE
                          /\ pc' = [pc EXCEPT ![t] = "null_ctx_deref"]
                          /\ UNCHANGED <<ret, loc>>
                     ELSE /\ aborted' = aborted
                          /\ IF ~allocOk
                             THEN /\ mods' = [mods EXCEPT ![m] = Fail(NewModule, "alloc")]
                                  /\ Return(t, "hipModuleLoadData", image, "hipErrorOutOfMemory")
                             ELSE IF ~deserOk
                             THEN /\ mods' = [mods EXCEPT ![m] = Fail(NewModule, "deserialize")]
                                  /\ Return(t, "hipModuleLoadData", image, "hipErrorSharedObjectInitFailed")
                             ELSE IF ~createOk
                             THEN /\ mods' = [mods EXCEPT ![m] =
                                         hsa_executable_create(NewModule, FALSE)]
                                  /\ Return(t, "hipModuleLoadData", image, "hipErrorNotInitialized")
                             ELSE /\ mods' = [mods EXCEPT ![m] =
                                         hsa_executable_create(NewModule, TRUE)]
                                  /\ Goto(t, "ld_load",
                                          [NoLoc EXCEPT !.m = m, !.fname = image])
    /\ UNCHANGED <<funcs, inflight, nDispatch, last, kernelArguments,
                   globals, code_readers, resolved, preUnload, ctx, mtx, elf>>

\* Lines 675-676: load the code object, status checked.
hipModuleLoadData_load(t, loadOk) ==
    /\ ~aborted
    /\ pc[t] = "ld_load"
    /\ LET m == loc[t].m
           r == hsa_executable_load_code_object(mods[m], loadOk)
       IN /\ mods' = [mods EXCEPT ![m] =
                 [r EXCEPT !.image = IF r.loaded THEN loc[t].fname ELSE @]]
          /\ IF r.loaded
             THEN /\ pc' = [pc EXCEPT ![t] = "ld_freeze"]
                  /\ UNCHANGED <<ret, loc>>
             ELSE Return(t, "hipModuleLoadData", loc[t].fname, "hipErrorNotInitialized")
    /\ UNCHANGED <<h, funcs, inflight, nDispatch, last,
                   kernelArguments, globals, code_readers, resolved,
                   preUnload, aborted, nCalls, ctx, mtx, elf>>

\* Lines 678-681: freeze, status checked, return hipSuccess.
hipModuleLoadData_freeze(t, freezeOk) ==
    /\ ~aborted
    /\ pc[t] = "ld_freeze"
    /\ LET m == loc[t].m
           r == hsa_executable_freeze(mods[m], freezeOk)
       IN IF r.exec = "frozen"
          THEN /\ mods' = [mods EXCEPT ![m] = [r EXCEPT !.published = TRUE]]
               /\ Return(t, "hipModuleLoadData", loc[t].fname, "hipSuccess")
          ELSE /\ mods' = [mods EXCEPT ![m] = r]
               /\ Return(t, "hipModuleLoadData", loc[t].fname, "hipErrorNotInitialized")
    /\ UNCHANGED <<h, funcs, inflight, nDispatch, last,
                   kernelArguments, globals, code_readers, resolved,
                   preUnload, aborted, nCalls, ctx, mtx, elf>>

\* ---------------------------------------------------- ihipModuleGetSymbol
\* The scan with the names compared as pointers: no entry ever matches.
CacheScanByPointer(ft, name) == {}

\* Lines 419-424: the positions of the cache whose entry has this name.
CacheScan(ft, name) ==
    {k \in 1..Len(ft) : funcs[ft[k]].name = name}

\* The return of ihipModuleGetSymbol to its caller.  hipModuleGetFunction
\* (line 463) returns the status.  hipModuleGetGlobal (lines 626-630) drops
\* the status, writes func->_object through dptr and returns hipSuccess;
\* func is an uninitialized local unless the lookup assigned it, and the
\* read through it is undefined: the process crashes, or some value is
\* written and the call returns.
ihipModuleGetSymbol_return(t, entry, name, status, hit, func) ==
    IF entry = "hipModuleGetFunction"
    THEN /\ IF hit THEN ReturnCached(t, name)
                   ELSE Return(t, entry, name, status)
         /\ aborted' = aborted
    ELSE IF func = "uninitialized"
    THEN \/ /\ aborted' = TRUE
            /\ pc' = [pc EXCEPT ![t] = "uninit_func_deref"]
            /\ UNCHANGED <<ret, loc>>
         \/ /\ aborted' = aborted
            /\ pc' = [pc EXCEPT ![t] = "idle"]
            /\ loc' = [loc EXCEPT ![t] = NoLoc]
            /\ ret' = [t |-> t, op |-> entry, arg |-> name,
                       status |-> "hipSuccess", hit |-> FALSE,
                       out |-> "uninitialized"]
    ELSE /\ aborted' = aborted
         /\ pc' = [pc EXCEPT ![t] = "idle"]
         /\ loc' = [loc EXCEPT ![t] = NoLoc]
         /\ ret' = [t |-> t, op |-> entry, arg |-> name,
                    status |-> "hipSuccess", hit |-> FALSE, out |-> func]

\* Lines 407-424: the null name, the context check, then the scan of
\* hmod->funcTrack.  A hit returns the cached entry.
ihipModuleGetSymbol(t, entry, m, name) ==
    /\ mods[m].published
    /\ ~mods[m].unloadReturned
    /\ LET hits == CacheScan(mods[m].funcTrack, name)
       IN IF name = NullName
          THEN /\ ihipModuleGetSymbol_return(t, entry, name,
                      "hipErrorInvalidValue", FALSE, "uninitialized")
               /\ UNCHANGED resolved
          ELSE IF ~ctx[t]
          THEN /\ ihipModuleGetSymbol_return(t, entry, name,
                      "hipErrorInvalidContext", FALSE, "uninitialized")
               /\ UNCHANGED resolved
          ELSE IF hits # {}
          THEN LET f == mods[m].funcTrack[Min(hits)]
               IN /\ resolved' = resolved \cup {<<m, name, f>>}
                  /\ ihipModuleGetSymbol_return(t, entry, name, "hipSuccess",
                                                TRUE, funcs[f].name)
          ELSE /\ Goto(t, "gs_query",
                       [NoLoc EXCEPT !.m = m, !.name = name, !.entry = entry,
                                     !.cache0 = mods[m].funcTrack])
               /\ UNCHANGED <<resolved, aborted>>
    /\ UNCHANGED <<h, mods, funcs, inflight, nDispatch, last,
                   kernelArguments, globals, code_readers, preUnload,
                   ctx, mtx, elf>>

\* Lines 460-464.
hipModuleGetFunction(t, m, name) ==
    /\ Call(t)
    /\ ihipModuleGetSymbol(t, "hipModuleGetFunction", m, name)

\* Lines 617-627: null dptr or bytes returns hipErrorInvalidValue, null
\* name or hmod returns hipErrorNotInitialized, otherwise the lookup.
hipModuleGetGlobal(t, m, name, outNull) ==
    /\ Call(t)
    /\ IF outNull \/ name = NullName \/ m = NULL
       THEN /\ Return(t, "hipModuleGetGlobal",
                      IF outNull THEN "dptr" ELSE IF name = NullName
                                 THEN name ELSE "hmod",
                      IF outNull THEN "hipErrorInvalidValue"
                                 ELSE "hipErrorNotInitialized")
            /\ UNCHANGED <<h, mods, funcs, inflight, nDispatch, last,
                           kernelArguments, globals, code_readers, resolved,
                           preUnload, aborted, ctx, mtx, elf>>
       ELSE ihipModuleGetSymbol(t, "hipModuleGetGlobal", m, name)

\* The query with the new object put in the cache before the status of the
\* symbol query is looked at.
ihipModuleGetSymbol_query_PushFirst(t) ==
    /\ ~aborted
    /\ pc[t] = "gs_query"
    /\ FreeFuncIds # {}
    /\ LET sym == Min(FreeFuncIds)
           m == loc[t].m
           name == loc[t].name
       IN IF ~hsa_executable_get_symbol(mods[m], name)
          THEN /\ funcs' = [funcs EXCEPT ![sym] =
                      [state |-> "live", name |-> "", mod |-> m]]
               /\ mods' = [mods EXCEPT ![m].funcTrack = Append(@, sym)]
               /\ ihipModuleGetSymbol_return(t, loc[t].entry, name,
                      "hipErrorNotFound", FALSE, "uninitialized")
          ELSE /\ funcs' = [funcs EXCEPT ![sym] =
                      [state |-> "live", name |-> name, mod |-> m]]
               /\ mods' = mods
               /\ pc' = [pc EXCEPT ![t] = "gs_push"]
               /\ loc' = [loc EXCEPT ![t].sym = sym,
                                     ![t].n = Len(mods[m].funcTrack)]
               /\ UNCHANGED <<ret, aborted>>
    /\ UNCHANGED <<h, inflight, nDispatch, last, kernelArguments,
                   globals, code_readers, resolved, preUnload, nCalls, ctx,
                   mtx, elf>>

\* Lines 425-453: a new ihipModuleSymbol_t, the symbol query (failure
\* returns hipErrorNotFound and the new object is not released), the three
\* properties, the name, *func = sym; push_back begins by reading the
\* vector's end.
ihipModuleGetSymbol_query(t) ==
    /\ ~aborted
    /\ pc[t] = "gs_query"
    /\ FreeFuncIds # {}
    /\ LET sym == Min(FreeFuncIds)
           m == loc[t].m
           name == loc[t].name
       IN IF ~hsa_executable_get_symbol(mods[m], name)
          THEN /\ funcs' = [funcs EXCEPT ![sym] =
                      [state |-> "live", name |-> "", mod |-> m]]
               /\ ihipModuleGetSymbol_return(t, loc[t].entry, name,
                      "hipErrorNotFound", FALSE, "uninitialized")
          ELSE /\ funcs' = [funcs EXCEPT ![sym] =
                      [state |-> "live", name |-> name, mod |-> m]]
               /\ pc' = [pc EXCEPT ![t] = "gs_push"]
               /\ loc' = [loc EXCEPT ![t].sym = sym,
                                     ![t].n = Len(mods[m].funcTrack)]
               /\ UNCHANGED <<ret, aborted>>
    /\ UNCHANGED <<h, mods, inflight, nDispatch, last, kernelArguments,
                   globals, code_readers, resolved, preUnload, nCalls, ctx,
                   mtx, elf>>

\* Lines 454-456: hmod->funcTrack.push_back(*func); return hipSuccess.
ihipModuleGetSymbol_push(t) ==
    /\ ~aborted
    /\ pc[t] = "gs_push"
    /\ LET m == loc[t].m
       IN /\ mods' = [mods EXCEPT ![m].funcTrack =
                 push_back(@, loc[t].n, loc[t].sym)]
          /\ resolved' = resolved \cup {<<m, loc[t].name, loc[t].sym>>}
    /\ ihipModuleGetSymbol_return(t, loc[t].entry, loc[t].name, "hipSuccess",
                                  FALSE, loc[t].name)
    /\ UNCHANGED <<h, funcs, inflight, nDispatch, last,
                   kernelArguments, globals, code_readers, preUnload,
                   nCalls, ctx, mtx, elf>>

\* ----------------------------------------------------------------- ElfSize
\* The loop of lines 155-164 from section header i on: the section whose
\* offset is strictly above every offset seen so far sets the total.
RECURSIVE ElfSizeLoop(_, _, _, _)
ElfSizeLoop(shdr, i, max_offset, total_size) ==
    IF i > Len(shdr) THEN total_size
    ELSE LET cur_offset == shdr[i].sh_offset
         IN IF max_offset < cur_offset
            THEN ElfSizeLoop(shdr, i + 1, cur_offset,
                             IF shdr[i].sh_type # "SHT_NOBITS"
                             THEN cur_offset + shdr[i].sh_size
                             ELSE cur_offset)
            ELSE ElfSizeLoop(shdr, i + 1, max_offset, total_size)

\* Lines 145-165: the walk starts from the section-header table itself,
\* at e_shoff with e_shnum entries of e_shentsize bytes.
ElfSize(emi) ==
    ElfSizeLoop(emi.shdr, 1, emi.e_shoff,
                emi.e_shoff + emi.e_shentsize * Len(emi.shdr))

\* --------------------------------------------------------- hipModuleUnload
\* The unload without its blocking wait: the executable is destroyed at
\* once.
hipModuleUnload_NoWait(t, m) ==
    /\ Call(t)
    /\ mods[m].published
    /\ ~mods[m].unloadCalled
    /\ mods' = [mods EXCEPT ![m].unloadCalled = TRUE]
    /\ preUnload' = [preUnload EXCEPT ![m] = {d.id : d \in inflight}]
    /\ Goto(t, "u_destroy", [NoLoc EXCEPT !.m = m])
    /\ UNCHANGED <<h, funcs, inflight, nDispatch, last, kernelArguments,
                   globals, code_readers, resolved, aborted, ctx, mtx, elf>>

\* Line 380 is reached: the caller has passed hmod.
hipModuleUnload(t, m) ==
    /\ Call(t)
    /\ mods[m].published
    /\ ~mods[m].unloadCalled
    /\ mods' = [mods EXCEPT ![m].unloadCalled = TRUE]
    /\ preUnload' = [preUnload EXCEPT ![m] = {d.id : d \in inflight}]
    /\ Goto(t, "u_sync", [NoLoc EXCEPT !.m = m])
    /\ UNCHANGED <<h, funcs, inflight, nDispatch, last, kernelArguments,
                   globals, code_readers, resolved, aborted, ctx, mtx, elf>>

\* ihipSynchronize (line 380): returns once no submitted dispatch is still
\* running.
ihipSynchronize(t) ==
    /\ ~aborted
    /\ pc[t] = "u_sync"
    /\ inflight = {}
    /\ pc' = [pc EXCEPT ![t] = "u_destroy"]
    /\ UNCHANGED <<loc, h, ret, mods, funcs, inflight, nDispatch,
                   last, kernelArguments, globals, code_readers, resolved,
                   preUnload, aborted, nCalls, ctx, mtx, elf>>

\* Lines 381-386: destroy the executable; a failure becomes
\* hipErrorInvalidValue.
hipModuleUnload_destroy(t) ==
    /\ ~aborted
    /\ pc[t] = "u_destroy"
    /\ LET m == loc[t].m
           r == hsa_executable_destroy(mods[m])
       IN /\ mods' = [mods EXCEPT ![m] = r]
          /\ loc' = [loc EXCEPT ![t].hit = (r.exec = "destroyed")]
    /\ pc' = [pc EXCEPT ![t] = "u_free"]
    /\ UNCHANGED <<h, ret, funcs, inflight, nDispatch, last,
                   kernelArguments, globals, code_readers, resolved,
                   preUnload, aborted, nCalls, ctx, mtx, elf>>

\* The release of a module that also unpins the host ranges its load
\* pinned.
hipModuleUnload_free_Unpin(t) ==
    /\ ~aborted
    /\ pc[t] = "u_free"
    /\ LET m == loc[t].m
           cached == {mods[m].funcTrack[k] : k \in 1..Len(mods[m].funcTrack)}
       IN /\ funcs' = [f \in FuncIds |->
                 IF f \in cached THEN [funcs[f] EXCEPT !.state = "freed"]
                 ELSE funcs[f]]
          /\ mods' = [mods EXCEPT ![m].state = "deleted",
                                  ![m].unloadReturned = TRUE]
          /\ globals' = SelectSeq(globals,
                                  LAMBDA e : e.name \notin mods[m].defined)
    /\ Return(t, "hipModuleUnload", "", "hipSuccess")
    /\ UNCHANGED <<h, inflight, nDispatch, last, kernelArguments,
                   code_readers, resolved, preUnload, aborted, nCalls, ctx,
                   mtx, elf>>

\* The release of a module that leaves its cached functions allocated.
hipModuleUnload_free_Leak(t) ==
    /\ ~aborted
    /\ pc[t] = "u_free"
    /\ LET m == loc[t].m
       IN mods' = [mods EXCEPT ![m].state = "deleted",
                               ![m].unloadReturned = TRUE]
    /\ Return(t, "hipModuleUnload", "", IF loc[t].hit THEN "hipSuccess" ELSE "hipErrorInvalidValue")
    /\ UNCHANGED <<h, funcs, inflight, nDispatch, last, kernelArguments,
                   globals, code_readers, resolved, preUnload, aborted,
                   nCalls, ctx, mtx, elf>>

\* Lines 397-401: delete every cached function, delete hmod, return.
hipModuleUnload_free(t) ==
    /\ ~aborted
    /\ pc[t] = "u_free"
    /\ LET m == loc[t].m
           cached == {mods[m].funcTrack[k] : k \in 1..Len(mods[m].funcTrack)}
       IN /\ funcs' = [f \in FuncIds |->
                 IF f \in cached THEN [funcs[f] EXCEPT !.state = "freed"]
                 ELSE funcs[f]]
          /\ mods' = [mods EXCEPT ![m].state = "deleted",
                                  ![m].unloadReturned = TRUE]
    /\ Return(t, "hipModuleUnload", "", IF loc[t].hit THEN "hipSuccess" ELSE "hipErrorInvalidValue")
    /\ UNCHANGED <<h, inflight, nDispatch, last, kernelArguments,
                   globals, code_readers, resolved, preUnload, aborted, nCalls, ctx, mtx, elf>>

\* A submitted dispatch runs to completion on the device.
Complete(d) ==
    /\ d \in inflight
    /\ inflight' = inflight \ {d}
    /\ UNCHANGED <<pc, loc, h, ret, mods, funcs, nDispatch, last,
                   kernelArguments, globals, code_readers, resolved,
                   preUnload, aborted, nCalls, ctx, mtx, elf>>

\* ------------------------------------------------- ihipModuleLaunchKernel
\* A default-constructed ihipKernArgInfo.
EmptyLayout == [Size |-> <<>>, Align |-> <<>>, totalSize |-> 0]

\* The byte the caller's memory holds at address a, and the size_t a size
\* pointer p points at.
HostByte(a) == 1 + ((a * 37) % 255)
HostSizeT(p) == 8 * p

\* kernelArguments[name] of line 491: std::map::operator[] yields the
\* entry, default-constructing and inserting it when the name has none.
MapIndex(map, name) ==
    IF name \in DOMAIN map THEN map ELSE map @@ (name :> EmptyLayout)

\* A copy that writes one byte more than it is asked to.
memcpy_OneMore(st, index, src, n) ==
    [buf |-> [j \in 1..Len(st.buf) |->
                 IF j > index /\ j <= index + n + 1
                 THEN HostByte(src + (j - index - 1)) ELSE st.buf[j]],
     oob |-> st.oob \/ index + n + 1 > Len(st.buf)]

\* memcpy(argBuf + index, src, n) of line 496 on a buffer of Len(buf) bytes;
\* oob records a write past the end of the allocation.
memcpy(st, index, src, n) ==
    [buf |-> [j \in 1..Len(st.buf) |->
                 IF j > index /\ j <= index + n
                 THEN HostByte(src + (j - index - 1)) ELSE st.buf[j]],
     oob |-> st.oob \/ index + n > Len(st.buf)]

\* The cursor advanced by the parameter's size instead of its stride.
AdvanceIndexBySize(pl, i, index) == index + pl.Size[i]

\* index += pl.Align[i] of line 497.
AdvanceIndex(pl, i, index) == index + pl.Align[i]

\* Lines 492-498: malloc, memset, then one memcpy per declared parameter at
\* the running index.
RECURSIVE PackLoop(_, _, _, _, _)
PackLoop(pl, kernelParams, i, index, st) ==
    IF i > Len(pl.Size)
    THEN [buf |-> st.buf, oob |-> st.oob, index |-> index]
    ELSE PackLoop(pl, kernelParams, i + 1, AdvanceIndex(pl, i, index),
                  memcpy(st, index, kernelParams[i], pl.Size[i]))

Pack(pl, kernelParams) ==
    PackLoop(pl, kernelParams, 1, 0,
             [buf |-> [j \in 1..pl.totalSize |-> 0], oob |-> FALSE])

\* The marker test without its END slot.
MarkersMatchNoEnd(config) ==
    /\ config[1] = HIP_LAUNCH_PARAM_BUFFER_POINTER
    /\ config[3] = HIP_LAUNCH_PARAM_BUFFER_SIZE

\* Line 503: the three marker slots of the extra array.
MarkersMatch(config) ==
    /\ config[1] = HIP_LAUNCH_PARAM_BUFFER_POINTER
    /\ config[3] = HIP_LAUNCH_PARAM_BUFFER_SIZE
    /\ config[5] = HIP_LAUNCH_PARAM_END

\* Lines 489-511: which argument convention the call takes.
ArgMode(kp, extra) ==
    IF ~kp.isNull THEN "positional"
    ELSE IF ~extra.isNull
         THEN IF MarkersMatch(extra.slots) THEN "extra" ELSE "badextra"
         ELSE "none"

\* The status with the return of line 510 missing.
LaunchStatusNoneFallsThrough(ctxOk, mode) ==
    IF ~ctxOk THEN "hipErrorInvalidDevice"
    ELSE IF mode = "badextra" THEN "hipErrorNotInitialized" ELSE "hipSuccess"

\* The status of lines 478-511 and 577.
LaunchStatus(ctxOk, mode) ==
    IF ~ctxOk THEN "hipErrorInvalidDevice"
    ELSE CASE mode = "badextra" -> "hipErrorNotInitialized"
           [] mode = "none"     -> "hipErrorInvalidValue"
           [] OTHER             -> "hipSuccess"

\* Whether line 554 (dispatch_hsa_kernel) is reached.
ReachesDispatch(ctxOk, mode) ==
    ctxOk /\ mode \in {"positional", "extra"}

\* config[1] and kernArgSize handed to dispatch_hsa_kernel (lines 499-504).
KernArg(mode, pl, packed, extra) ==
    IF mode = "positional"
    THEN [kind |-> "argBuf", bytes |-> packed.buf, size |-> pl.totalSize]
    ELSE [kind |-> "caller", ptr |-> extra.slots[2],
          size |-> HostSizeT(extra.slots[4])]

NoPacket == [kind |-> "none"]

\* Lines 475-577 as one step of thread t: the argument convention, the
\* dispatch packet, the submission, the events, the release of the buffer.
\* a.api is history: the arguments the caller gave the entry point.
ihipModuleLaunchKernel(t, entry, a) ==
    /\ Call(t)
    /\ funcs[a.f].state # "unalloc"
    /\ \E r \in resolved : r[3] = a.f
    /\ ~mods[funcs[a.f].mod].unloadReturned
    /\ LET name == funcs[a.f].name
           mode == ArgMode(a.kp, a.extra)
           positional == ctx[t] /\ mode = "positional"
           map == IF positional THEN MapIndex(kernelArguments, name)
                  ELSE kernelArguments
           pl == IF positional THEN map[name] ELSE EmptyLayout
           packed == IF positional /\ Len(a.kp.ptrs) >= Len(pl.Size)
                     THEN Pack(pl, a.kp.ptrs)
                     ELSE [buf |-> <<>>, oob |-> FALSE, index |-> 0]
           submits == ReachesDispatch(ctx[t], mode)
       IN /\ positional => Len(a.kp.ptrs) = Len(pl.Size)
          /\ submits => nDispatch < MaxDispatch
          /\ kernelArguments' = map
          /\ inflight' = IF submits
                         THEN inflight \cup {[id |-> nDispatch + 1,
                                              mod |-> funcs[a.f].mod]}
                         ELSE inflight
          /\ nDispatch' = IF submits THEN nDispatch + 1 ELSE nDispatch
          /\ last' =
                 [called |-> TRUE, t |-> t, args |-> a, mode |-> mode,
                  submitted |-> submits,
                  packet |-> IF submits
                             THEN [f |-> a.f, grid |-> a.global,
                                   workgroup |-> a.local,
                                   kernarg |-> KernArg(mode, pl, packed, a.extra),
                                   signal |-> a.startEvent \/ a.stopEvent]
                             ELSE NoPacket,
                  events |-> IF submits
                             THEN {e \in {"start", "stop"} :
                                     \/ e = "start" /\ a.startEvent
                                     \/ e = "stop" /\ a.stopEvent}
                             ELSE {},
                  mallocs |-> IF positional THEN 1 ELSE 0,
                  frees |-> IF positional THEN 1 ELSE 0,
                  layout |-> pl,
                  index |-> packed.index,
                  oob |-> packed.oob]
          /\ Return(t, entry, "", LaunchStatus(ctx[t], mode))
    /\ UNCHANGED <<h, mods, funcs, globals, code_readers, resolved,
                   preUnload, aborted, ctx, mtx, elf>>

\* A uint32_t is the pair <<high half, low half>> of its 16-bit halves.
U32(n) == <<n \div 65536, n % 65536>>

\* The low and the high 16 bits of the product of two 16-bit numbers,
\* computed on 8-bit limbs.
Lo16Mul(x, y) ==
    LET mid == (x \div 256) * (y % 256) + (x % 256) * (y \div 256)
    IN ((x % 256) * (y % 256) + (mid % 256) * 256) % 65536

Hi16Mul(x, y) ==
    LET mid == (x \div 256) * (y % 256) + (x % 256) * (y \div 256)
    IN (x \div 256) * (y \div 256) + (mid \div 256)
       + (((x % 256) * (y % 256) + (mid % 256) * 256) \div 65536)

\* uint32_t multiplication of line 591: the product modulo 2^32.
Mul32(x, y) ==
    <<(Hi16Mul(x[2], y[2]) + Lo16Mul(x[1], y[2]) + Lo16Mul(x[2], y[1])) % 65536,
      Lo16Mul(x[2], y[2])>>

\* Lines 586-594: global size = blockDim * gridDim per dimension, no events.
hipModuleLaunchKernel(t, a) ==
    ihipModuleLaunchKernel(t, "hipModuleLaunchKernel",
        [f |-> a.f,
         global |-> [d \in 1..3 |-> Mul32(a.blockDim[d], a.gridDim[d])],
         local |-> a.blockDim,
         kp |-> a.kp, extra |-> a.extra,
         startEvent |-> FALSE, stopEvent |-> FALSE, api |-> a])

\* Lines 605-611: the sizes and the events are passed through.
hipHccModuleLaunchKernel(t, a) ==
    ihipModuleLaunchKernel(t, "hipHccModuleLaunchKernel",
        [f |-> a.f, global |-> a.gridDim, local |-> a.blockDim,
         kp |-> a.kp, extra |-> a.extra,
         startEvent |-> a.startEvent, stopEvent |-> a.stopEvent, api |-> a])

\* ------------------------------------------------------------- the inputs
NullParams == [isNull |-> TRUE, ptrs |-> <<>>]
NullExtra == [isNull |-> TRUE, slots |-> <<>>]
Unit3 == <<U32(1), U32(1), U32(1)>>

\* Launches of the lifecycle specification: positional arguments, one
\* pointer per declared parameter.
MainLaunchArgs ==
    {[f |-> f, gridDim |-> Unit3, blockDim |-> Unit3,
      kp |-> [isNull |-> FALSE, ptrs |-> ptrs], extra |-> NullExtra,
      startEvent |-> FALSE, stopEvent |-> FALSE] :
        f \in FuncIds, ptrs \in {<<>>, <<1>>}}

\* The layout table of the lifecycle specification: k1 takes one parameter
\* of one byte in a slot of two; k2 has no registered layout.
MainKernelArguments ==
    "k1" :> [Size |-> <<1>>, Align |-> <<2>>, totalSize |-> 2]

\* ------------------------------------------------- lifecycle specification
\* Which threads have an active device context.  Threads differ in nothing
\* else, so the threads without a context are taken to be the first ones.
Contexts ==
    {c \in [Threads -> BOOLEAN] :
        \A t \in Threads, u \in Threads : (t < u /\ c[t]) => c[u]}

Init ==
    /\ pc = [t \in Threads |-> "idle"]
    /\ loc = [t \in Threads |-> NoLoc]
    /\ h = [t \in Threads |-> NULL]
    /\ ret = [t |-> NULL, op |-> "none", arg |-> "", status |-> "none",
              hit |-> FALSE, out |-> "none"]
    /\ ctx \in Contexts
    /\ mods = [m \in ModIds |-> UnallocModule]
    /\ funcs = [f \in FuncIds |-> UnallocFunc]
    /\ inflight = {}
    /\ nDispatch = 0
    /\ last = NoLaunch
    /\ kernelArguments = MainKernelArguments
    /\ globals = <<>>
    /\ code_readers = <<>>
    /\ resolved = {}
    /\ preUnload = [m \in ModIds |-> {}]
    /\ aborted = FALSE
    /\ nCalls = 0
    /\ mtx = Unlocked
    /\ elf = NoElf

\* The steps of thread t other than the calls of hipModuleLoad and
\* hipModuleGetGlobal.
OtherSteps(t) ==
    \/ \E asserts \in BOOLEAN :
           associate_code_object_symbols_with_host_allocation(t, asserts)
    \/ globals_emplace_back(t)
    \/ \E readerOk \in BOOLEAN, loadOk \in BOOLEAN :
           load_code_object(t, readerOk, loadOk)
    \/ \E freezeOk \in BOOLEAN : freeze_executable(t, freezeOk)
    \/ code_readers_push_back(t)
    \/ \E image \in Images, crash \in BOOLEAN, allocOk \in BOOLEAN,
          deserOk \in BOOLEAN, createOk \in BOOLEAN :
           hipModuleLoadData(t, image, crash, allocOk, deserOk, createOk)
    \/ \E loadOk \in BOOLEAN : hipModuleLoadData_load(t, loadOk)
    \/ \E freezeOk \in BOOLEAN : hipModuleLoadData_freeze(t, freezeOk)
    \/ \E m \in ModIds, name \in LookupNames :
           hipModuleGetFunction(t, m, name)
    \/ ihipModuleGetSymbol_query(t)
    \/ ihipModuleGetSymbol_push(t)
    \/ \E a \in MainLaunchArgs : hipModuleLaunchKernel(t, a)
    \/ \E a \in MainLaunchArgs : hipHccModuleLaunchKernel(t, a)
    \/ \E m \in ModIds : hipModuleUnload(t, m)
    \/ ihipSynchronize(t)
    \/ hipModuleUnload_destroy(t)
    \/ hipModuleUnload_free(t)

LoadCalls(t, files) ==
    \E fname \in files, createOk \in BOOLEAN : hipModuleLoad(t, fname, createOk)

GlobalCalls(t) ==
    \E m \in ModIds \cup {NULL}, name \in GlobalNames, outNull \in BOOLEAN :
        hipModuleGetGlobal(t, m, name, outNull)

\* One step of thread t.
Step(t) == LoadCalls(t, Files) \/ GlobalCalls(t) \/ OtherSteps(t)

\* The files loaded by the threads of the lifecycle specification.
ConcurrentFiles == {"A.co", "missing.co"}

Device == \E d \in inflight : Complete(d)

\* The lifecycle specification: the threads load, look up, launch and
\* unload in every interleaving.
Next ==
    \/ \E t \in Threads : LoadCalls(t, ConcurrentFiles) \/ OtherSteps(t)
    \/ Device

Spec == Init /\ [][Next]_vars

\* Calls issued one at a time: a thread steps only while every other
\* thread is between calls.
SeqNext ==
    \/ \E t \in Threads :
          /\ \A u \in Threads \ {t} : pc[u] = "idle"
          /\ Step(t)
    \/ Device

SeqSpec == Init /\ [][SeqNext]_vars

\* --------------------------------------------------- launch specification
\* The state after thread 1 has loaded A.co and looked up k1 and k2.
LoadedModule ==
    [NewModule EXCEPT !.exec = "frozen", !.loaded = TRUE, !.defined = {"g1"},
                      !.funcTrack = <<1, 2>>, !.image = "A.co",
                      !.published = TRUE, !.pinned = 1, !.reader = TRUE]

AfterLookups ==
    /\ pc = [t \in Threads |-> "idle"]
    /\ loc = [t \in Threads |-> NoLoc]
    /\ h = [t \in Threads |-> IF t = 1 THEN 1 ELSE NULL]
    /\ ret = [t |-> 1, op |-> "hipModuleGetFunction", arg |-> "k2",
              status |-> "hipSuccess", hit |-> FALSE, out |-> "none"]
    /\ mods = [m \in ModIds |-> IF m = 1 THEN LoadedModule ELSE UnallocModule]
    /\ funcs = [f \in FuncIds |->
                   CASE f = 1 -> [state |-> "live", name |-> "k1", mod |-> 1]
                     [] f = 2 -> [state |-> "live", name |-> "k2", mod |-> 1]
                     [] OTHER -> UnallocFunc]
    /\ inflight = {}
    /\ nDispatch = 0
    /\ last = NoLaunch
    /\ globals = <<[name |-> "g1", addr |-> 64, size |-> 4]>>
    /\ code_readers = <<1>>
    /\ resolved = {<<1, "k1", 1>>, <<1, "k2", 2>>}
    /\ preUnload = [m \in ModIds |-> {}]
    /\ aborted = FALSE
    /\ mtx = Unlocked
    /\ elf = NoElf

ParamPtrs(n) == [1..n -> 1..MaxPtr]

\* The extra arrays a caller passes: each marker slot right or wrong.
LaunchExtras ==
    {NullExtra} \cup
    {[isNull |-> FALSE, slots |-> <<s0, 7, s2, sp, s4>>] :
        s0 \in {HIP_LAUNCH_PARAM_BUFFER_POINTER, HIP_LAUNCH_PARAM_END},
        s2 \in {HIP_LAUNCH_PARAM_BUFFER_SIZE, HIP_LAUNCH_PARAM_BUFFER_POINTER},
        s4 \in {HIP_LAUNCH_PARAM_END, NULL},
        sp \in 1..MaxPtr}

\* The kernelParams a caller passes for a kernel whose layout declares n
\* parameters: null, or one pointer per parameter.
LaunchParams(n) ==
    {NullParams} \cup {[isNull |-> FALSE, ptrs |-> ptrs] : ptrs \in ParamPtrs(n)}

DeclaredParams(f) ==
    IF funcs[f].name \in DOMAIN MainKernelArguments
    THEN Len(MainKernelArguments[funcs[f].name].Size) ELSE 0

\* The geometries a caller passes: small ones, and one whose first
\* dimension is 2^16, so that a product of two of them needs 33 bits.
LaunchDims == {Unit3, <<U32(2), U32(1), U32(1)>>, <<U32(65536), U32(1), U32(2)>>}

GoodExtra ==
    [isNull |-> FALSE,
     slots |-> <<HIP_LAUNCH_PARAM_BUFFER_POINTER, 7,
                 HIP_LAUNCH_PARAM_BUFFER_SIZE, 1, HIP_LAUNCH_PARAM_END>>]

\* The launches of the launch specification: every combination of
\* kernelParams and extra with unit geometry, and every geometry and event
\* combination with one argument convention.
LaunchArgs ==
    UNION {
      {[f |-> f, gridDim |-> Unit3, blockDim |-> Unit3, kp |-> kp,
        extra |-> extra, startEvent |-> e, stopEvent |-> e] :
          kp \in LaunchParams(DeclaredParams(f)), extra \in LaunchExtras,
          e \in BOOLEAN}
      \cup
      {[f |-> f, gridDim |-> g, blockDim |-> b, kp |-> NullParams,
        extra |-> GoodExtra, startEvent |-> e1, stopEvent |-> e2] :
          g \in LaunchDims, b \in LaunchDims, e1 \in BOOLEAN, e2 \in BOOLEAN}
      : f \in {1, 2}}

LaunchInit ==
    /\ AfterLookups
    /\ kernelArguments = MainKernelArguments
    /\ nCalls = 0
    /\ \E c \in BOOLEAN : ctx = [t \in Threads |-> c]

LaunchNext ==
    \/ \E a \in {x \in LaunchArgs : ~x.startEvent /\ ~x.stopEvent} :
           hipModuleLaunchKernel(1, a)
    \/ \E a \in LaunchArgs : hipHccModuleLaunchKernel(1, a)
    \/ Device

LaunchSpec == LaunchInit /\ [][LaunchNext]_vars

\* -------------------------------------------------- packing specification
\* The layout of the vecAdd example: two 8-byte pointers and a 4-byte int
\* in slots of 8.
VecAddLayout == [Size |-> <<8, 8, 4>>, Align |-> <<8, 8, 8>>, totalSize |-> 24]

\* The layouts the table may hold for k1.
Layouts ==
    {VecAddLayout} \cup
    UNION {{[Size |-> sz, Align |-> al, totalSize |-> tot] :
               sz \in [1..n -> 1..MaxSize], al \in [1..n -> 1..MaxAlign],
               tot \in 0..MaxTotal} : n \in 0..MaxParams}

PackArgs ==
    {[f |-> 1, gridDim |-> Unit3, blockDim |-> Unit3,
      kp |-> [isNull |-> FALSE, ptrs |-> ptrs], extra |-> NullExtra,
      startEvent |-> FALSE, stopEvent |-> FALSE] :
        ptrs \in UNION {ParamPtrs(n) :
                          n \in (0..MaxParams) \cup {Len(VecAddLayout.Size)}}}

PackInit ==
    /\ AfterLookups
    /\ \E pl \in Layouts : kernelArguments = ("k1" :> pl)
    /\ nCalls = 0
    /\ ctx = [t \in Threads |-> TRUE]

PackNext ==
    \/ \E a \in PackArgs : hipModuleLaunchKernel(1, a)
    \/ Device

PackSpec == PackInit /\ [][PackNext]_vars

\* -------------------------------------------------- ElfSize specification
\* The section headers an image may carry.
SectionHeaders ==
    [sh_offset : 0..MaxShOffset, sh_size : 0..MaxShSize,
     sh_type : {"SHT_PROGBITS", "SHT_NOBITS"}]

\* The images ElfSize is given: the ELF header fields it reads and the
\* section-header table.
ElfImages ==
    UNION {[e_shoff : 0..MaxShOffset, e_shentsize : 1..MaxShentsize,
            shdr : [1..n -> SectionHeaders]] : n \in 0..MaxShnum}

ElfInit ==
    /\ pc = [t \in Threads |-> "idle"]
    /\ loc = [t \in Threads |-> NoLoc]
    /\ h = [t \in Threads |-> NULL]
    /\ ret = [t |-> NULL, op |-> "none", arg |-> "", status |-> "none",
              hit |-> FALSE, out |-> "none"]
    /\ ctx = [t \in Threads |-> TRUE]
    /\ mods = [m \in ModIds |-> UnallocModule]
    /\ funcs = [f \in FuncIds |-> UnallocFunc]
    /\ inflight = {}
    /\ nDispatch = 0
    /\ last = NoLaunch
    /\ kernelArguments = MainKernelArguments
    /\ globals = <<>>
    /\ code_readers = <<>>
    /\ resolved = {}
    /\ preUnload = [m \in ModIds |-> {}]
    /\ aborted = FALSE
    /\ nCalls = 0
    /\ mtx = Unlocked
    /\ \E emi \in ElfImages : elf = [called |-> FALSE, emi |-> emi]

\* Line 647: ElfSize is applied to the image.
ElfSizeCall ==
    /\ ~elf.called
    /\ elf' = [called |-> TRUE, emi |-> elf.emi, size |-> ElfSize(elf.emi)]
    /\ UNCHANGED <<pc, loc, h, ret, mods, funcs, inflight, nDispatch, last,
                   kernelArguments, globals, code_readers, resolved,
                   preUnload, aborted, nCalls, ctx, mtx>>

ElfNext == ElfSizeCall

ElfSpec == ElfInit /\ [][ElfNext]_vars

\* ================================================================ claims
LoadEntries == {"hipModuleLoad", "hipModuleLoadData"}

\* The functions successful lookups of `name` on module m have returned.
ReturnedFor(m, name) == {r[3] : r \in {x \in resolved : x[1] = m /\ x[2] = name}}

\* C1: with calls issued one at a time (SeqSpec), all successful lookups of
\* one name on one module return the same Function object, and the cache
\* of a module never holds two entries with the same name.
C1_SameNameSameFunction ==
    /\ \A a \in resolved, b \in resolved :
          (a[1] = b[1] /\ a[2] = b[2]) => a[3] = b[3]
    /\ \A m \in ModIds :
          \A i \in 1..Len(mods[m].funcTrack), j \in 1..Len(mods[m].funcTrack) :
              i # j => funcs[mods[m].funcTrack[i]].name
                       # funcs[mods[m].funcTrack[j]].name

\* A lookup has just been answered from the cache.
C1_Witness ==
    /\ ret.op = "hipModuleGetFunction"
    /\ ret.status = "hipSuccess"
    /\ ret.hit

\* C2: once unload has destroyed the executable, freed a cached function
\* or deleted the module, every dispatch that was in flight when unload
\* was called has completed.
C2_UnloadWaitsForPriorDispatches ==
    \A m \in ModIds :
        ( \/ mods[m].exec = "destroyed"
          \/ mods[m].state = "deleted"
          \/ \E f \in FuncIds : funcs[f].mod = m /\ funcs[f].state = "freed"
          \/ \E t \in Threads : pc[t] = "u_free" /\ loc[t].m = m )
        => preUnload[m] \cap {d.id : d \in inflight} = {}

\* Unload destroyed an executable although dispatches were in flight when
\* it was called.
C2_Witness ==
    \E m \in ModIds : mods[m].exec = "destroyed" /\ preUnload[m] # {}

\* C3: after a load has returned a failure status, the caller's module
\* variable does not refer to a module that load created.
C3_FailedLoadLeavesNoModule ==
    ( /\ ret.op \in LoadEntries
      /\ ret.status # "hipSuccess"
      /\ pc[ret.t] = "idle" )
    => (h[ret.t] = NULL \/ mods[h[ret.t]].published)

\* The sum of the first n strides of a layout, and the offset at which
\* parameter i is expected.
RECURSIVE SumAlign(_, _)
SumAlign(pl, n) == IF n = 0 THEN 0 ELSE SumAlign(pl, n - 1) + pl.Align[n]

Offset(pl, i) == SumAlign(pl, i - 1)

WellFormed(pl) ==
    /\ Len(pl.Align) = Len(pl.Size)
    /\ \A i \in 1..Len(pl.Size) : pl.Align[i] >= pl.Size[i]
    /\ pl.totalSize = SumAlign(pl, Len(pl.Size))

\* C4: a positional launch hands dispatch a size equal to the layout's
\* totalSize; when every stride is at least its size and totalSize is the
\* sum of the strides, the buffer has totalSize bytes, no copy leaves it,
\* and the Size[i] bytes at the sum of the strides before i are the bytes
\* read from kernelParams[i].
C4_PositionalPackingRoundTrip ==
    (last.called /\ last.submitted /\ last.mode = "positional")
    => LET pl == last.layout
           ka == last.packet.kernarg
           ptrs == last.args.kp.ptrs
       IN /\ ka.kind = "argBuf"
          /\ ka.size = pl.totalSize
          /\ WellFormed(pl)
             => /\ Len(ka.bytes) = pl.totalSize
                /\ ~last.oob
                /\ \A i \in 1..Len(pl.Size) :
                      \A j \in 1..pl.Size[i] :
                          ka.bytes[Offset(pl, i) + j] = HostByte(ptrs[i] + j - 1)

\* The vecAdd example was launched: sizes 8, 8, 4 in strides 8, 8, 8 give
\* 24 bytes with the parameters at offsets 0, 8 and 16 and four bytes of
\* padding left zero.
C4_Witness ==
    /\ last.called /\ last.submitted /\ last.mode = "positional"
    /\ last.layout = VecAddLayout
    /\ Len(last.packet.kernarg.bytes) = 24
    /\ Offset(last.layout, 2) = 8 /\ Offset(last.layout, 3) = 16
    /\ last.packet.kernarg.bytes[17] = HostByte(last.args.kp.ptrs[3])
    /\ last.packet.kernarg.bytes[21] = 0

\* The three marker slots of an extra array hold the expected markers.
SlotsAreMarkers(extra) ==
    /\ extra.slots[1] = HIP_LAUNCH_PARAM_BUFFER_POINTER
    /\ extra.slots[3] = HIP_LAUNCH_PARAM_BUFFER_SIZE
    /\ extra.slots[5] = HIP_LAUNCH_PARAM_END

\* C5 as stated: every launch given an extra array returns
\* hipErrorNotInitialized without a submission when a marker slot is wrong,
\* and otherwise dispatches the pointer of slot 1 with the size read
\* through slot 3.
C5_EveryLaunchWithExtra ==
    (last.called /\ ~last.args.extra.isNull)
    => IF SlotsAreMarkers(last.args.extra)
       THEN /\ last.submitted
            /\ last.packet.kernarg.kind = "caller"
            /\ last.packet.kernarg.ptr = last.args.extra.slots[2]
            /\ last.packet.kernarg.size = HostSizeT(last.args.extra.slots[4])
       ELSE /\ ret.status = "hipErrorNotInitialized"
            /\ ~last.submitted

\* C5, amended: a launch made with an active device context and null
\* kernelParams that is given an extra array returns hipErrorNotInitialized
\* and submits nothing when a marker slot is wrong; when the markers match
\* it submits one dispatch whose argument buffer is the pointer of slot 1
\* and whose size is the value read through the pointer of slot 3.  (Every
\* call of the launch specification is a launch.)
C5_ExtraConvention ==
    [][(/\ nCalls' = nCalls + 1
        /\ ctx[last'.t]
        /\ last'.args.kp.isNull
        /\ ~last'.args.extra.isNull)
       => IF SlotsAreMarkers(last'.args.extra)
          THEN /\ ret'.status = "hipSuccess"
               /\ nDispatch' = nDispatch + 1
               /\ Cardinality(inflight') = Cardinality(inflight) + 1
               /\ last'.packet.kernarg.kind = "caller"
               /\ last'.packet.kernarg.ptr = last'.args.extra.slots[2]
               /\ last'.packet.kernarg.size
                    = HostSizeT(last'.args.extra.slots[4])
          ELSE /\ ret'.status = "hipErrorNotInitialized"
               /\ nDispatch' = nDispatch
               /\ inflight' = inflight
      ]_vars

\* A launch whose extra array is wrong in its END slot only has returned
\* hipErrorNotInitialized.
C5_Witness ==
    /\ last.called /\ ctx[last.t]
    /\ last.args.kp.isNull /\ ~last.args.extra.isNull
    /\ last.args.extra.slots[1] = HIP_LAUNCH_PARAM_BUFFER_POINTER
    /\ last.args.extra.slots[3] = HIP_LAUNCH_PARAM_BUFFER_SIZE
    /\ last.args.extra.slots[5] # HIP_LAUNCH_PARAM_END
    /\ ret.status = "hipErrorNotInitialized"
    /\ ~last.submitted

\* C6: a launch through either entry point, made with an active device
\* context and with kernelParams and extra both null, returns
\* hipErrorInvalidValue, submits no dispatch, attaches no event and
\* allocates no argument buffer.  (Every call of the launch specification
\* is a launch.)
C6_NeitherConventionIsInvalidValue ==
    [][(/\ nCalls' = nCalls + 1
        /\ ctx[last'.t]
        /\ last'.args.kp.isNull
        /\ last'.args.extra.isNull)
       => /\ ret'.op \in {"hipModuleLaunchKernel", "hipHccModuleLaunchKernel"}
          /\ ret'.status = "hipErrorInvalidValue"
          /\ nDispatch' = nDispatch
          /\ inflight' = inflight
          /\ last'.events = {}
          /\ last'.mallocs = 0
          /\ kernelArguments' = kernelArguments
      ]_vars

\* hipHccModuleLaunchKernel was called with both events and with neither
\* argument convention, and returned hipErrorInvalidValue.
C6_Witness ==
    /\ last.called /\ ctx[last.t]
    /\ last.args.kp.isNull /\ last.args.extra.isNull
    /\ last.args.startEvent /\ last.args.stopEvent
    /\ ret.op = "hipHccModuleLaunchKernel"
    /\ ret.status = "hipErrorInvalidValue"

\* C7 as stated: every get-function call for the name the executable does
\* not hold has returned hipErrorNotFound.
C7_AbsentNameIsNotFound ==
    (ret.op = "hipModuleGetFunction" /\ ret.arg = AbsentName)
    => ret.status = "hipErrorNotFound"

\* C7, amended: under SeqSpec, a get-function call made with an active
\* device context for the name the executable does not hold returns
\* hipErrorNotFound; a get-function lookup that leaves the query step by
\* returning has returned hipErrorNotFound and changed no cache; the query
\* of a name the executable holds goes on to the insertion, and the
\* insertion of a get-function lookup returns
\* hipSuccess with exactly one entry added to that module's cache.
C7_NotFoundLeavesCache ==
    /\ []((ret.op = "hipModuleGetFunction" /\ ret.arg = AbsentName
           /\ ctx[ret.t])
          => ret.status = "hipErrorNotFound")
    /\ [][\A t \in Threads :
         /\ (pc[t] = "gs_query" /\ pc'[t] = "idle"
             /\ loc[t].entry = "hipModuleGetFunction")
            => /\ ret'.status = "hipErrorNotFound"
               /\ ~hsa_executable_get_symbol(mods[loc[t].m], loc[t].name)
               /\ \A m \in ModIds : mods'[m].funcTrack = mods[m].funcTrack
         /\ (pc[t] = "gs_query" /\ pc'[t] # "gs_query"
             /\ hsa_executable_get_symbol(mods[loc[t].m], loc[t].name))
            => pc'[t] = "gs_push"
         /\ (pc[t] = "gs_push" /\ pc'[t] = "idle"
             /\ loc[t].entry = "hipModuleGetFunction")
            => /\ ret'.status = "hipSuccess"
               /\ Len(mods'[loc[t].m].funcTrack)
                    = Len(mods[loc[t].m].funcTrack) + 1
               /\ \A m \in ModIds \ {loc[t].m} :
                     mods'[m].funcTrack = mods[m].funcTrack
      ]_vars

\* A failed lookup on a module (it left its unnamed object behind) was
\* followed by a successful first lookup of a name, which is the one
\* entry of the cache.
C7_Witness ==
    \E m \in ModIds, f \in FuncIds :
        /\ funcs[f].mod = m /\ funcs[f].state = "live" /\ funcs[f].name = ""
        /\ Len(mods[m].funcTrack) = 1
        /\ f < mods[m].funcTrack[1]
        /\ ret.op = "hipModuleGetFunction" /\ ret.status = "hipSuccess"

\* C8: under every interleaving, the lookups of one name on one module have
\* returned at most one Function object and the cache holds at most one
\* entry of that name.
C8_ConcurrentLookupsAgree ==
    \A m \in ModIds, name \in KernelNames :
        /\ Cardinality(ReturnedFor(m, name)) <= 1
        /\ Cardinality(CacheScan(mods[m].funcTrack, name)) <= 1

\* C9: a frozen executable stays frozen until it is destroyed, gets no new
\* global definition and no code object, and no definition or code-object
\* load is ever attempted on a frozen executable.
C9_FrozenIsFinal ==
    [][\A m \in ModIds :
         /\ ~mods'[m].lateBind
         /\ mods[m].exec = "frozen"
            => /\ mods'[m].exec \in {"frozen", "destroyed"}
               /\ mods'[m].defined = mods[m].defined
               /\ mods'[m].loaded = mods[m].loaded
      ]_vars

\* A module was loaded from a file (its global is defined, its code object
\* loaded, its executable frozen) and a lookup then filled its cache.
C9_Witness ==
    \E m \in ModIds :
        /\ mods[m].exec = "frozen"
        /\ mods[m].defined = {"g1"}
        /\ mods[m].loaded
        /\ Len(mods[m].funcTrack) > 0

\* C10: after a load has returned hipSuccess, the module the caller holds
\* has a frozen executable with the code object loaded (until unload is
\* called on it).
C10_SuccessfulLoadIsValid ==
    ( /\ ret.op \in LoadEntries
      /\ ret.status = "hipSuccess"
      /\ pc[ret.t] = "idle"
      /\ ~mods[h[ret.t]].unloadCalled )
    => /\ mods[h[ret.t]].exec = "frozen"
       /\ mods[h[ret.t]].loaded

\* C11: after a load has returned, the status is hipErrorFileNotFound when
\* the first step that failed was the parse of the image,
\* hipErrorSharedObjectInitFailed when it was the creation of the executable
\* or the load of the code object into it, and hipErrorOutOfMemory when it
\* was the memory allocation.
C11_LoadErrorMapping ==
    ( /\ ret.op \in LoadEntries
      /\ ret.arg # "NULL"
      /\ pc[ret.t] = "idle" )
    => LET failed == mods[h[ret.t]].failed
       IN /\ failed = "parse" => ret.status = "hipErrorFileNotFound"
          /\ failed \in {"create", "load"}
             => ret.status = "hipErrorSharedObjectInitFailed"
          /\ failed = "alloc" => ret.status = "hipErrorOutOfMemory"

\* C12: no host range of address zero or of length zero is ever pinned and
\* kept in the process-wide list, and no global is defined in an executable
\* for a symbol whose host lookup gave address zero or length zero.
C12_BinderFailsFast ==
    /\ \A i \in 1..Len(globals) :
          globals[i].addr # 0 /\ globals[i].size # 0
    /\ \A m \in ModIds : \A x \in mods[m].defined :
          find_symbol_address(x)[1] # 0 /\ find_symbol_address(x)[2] # 0

\* A step of a thread that is inside hipModuleUnload or enters it.
UnloadStep ==
    \E t \in Threads :
        /\ pc'[t] # pc[t]
        /\ pc[t] \in {"u_sync", "u_destroy", "u_free"} \/ pc'[t] = "u_sync"

\* C13: every step leaves the entries of the process-wide list of pinned
\* mappings in place and adds at most one entry at its end; a step of
\* hipModuleUnload leaves the list as it is.
C13_PinnedMappingsOutliveModules ==
    [][/\ Len(globals') \in {Len(globals), Len(globals) + 1}
       /\ SubSeq(globals', 1, Len(globals)) = globals
       /\ UnloadStep => globals' = globals
      ]_vars

\* Two modules bound the host global g1; one of them has been unloaded and
\* deleted, the other is live, and both pinned mappings are still held.
C13_Witness ==
    \E m1 \in ModIds, m2 \in ModIds :
        /\ mods[m1].state = "deleted" /\ "g1" \in mods[m1].defined
        /\ mods[m2].state = "live" /\ "g1" \in mods[m2].defined
        /\ mods[m2].published
        /\ Len(globals) = 2
        /\ \A i \in 1..2 : globals[i].name = "g1"

\* The number of host ranges pinned by the loads of modules 1..n.
RECURSIVE SumPinned(_)
SumPinned(n) == IF n = 0 THEN 0 ELSE SumPinned(n - 1) + mods[n].pinned

InsideInsertion(label) == {t \in Threads : pc[t] = label}

\* C14: under every interleaving, at most one thread is between the lock
\* and the unlock of the list of pinned mappings, and at most one between
\* those of the list of code-object readers; the list of mappings holds one
\* entry per range pinned (but for the one being inserted), and the list
\* of readers one entry per reader made by a load that has left its
\* insertion.
C14_InsertionsAreMutuallyExclusive ==
    /\ Cardinality(InsideInsertion("load_emplace")) <= 1
    /\ Cardinality(InsideInsertion("load_reader")) <= 1
    /\ Len(globals) + Cardinality(InsideInsertion("load_emplace"))
         = SumPinned(MaxModules)
    /\ Len(code_readers)
         = Cardinality({m \in ModIds :
               /\ mods[m].reader
               /\ \A t \in Threads :
                     pc[t] \in {"load_freeze", "load_reader"}
                     => loc[t].m # m})
    /\ \A i \in 1..Len(code_readers), j \in 1..Len(code_readers) :
          i # j => code_readers[i] # code_readers[j]

\* One thread holds the mutex of the list of pinned mappings, inside its
\* insertion, while another thread's load has its symbol ready to bind.
C14_Witness ==
    \E t1 \in Threads, t2 \in Threads :
        /\ t1 # t2
        /\ pc[t1] = "load_emplace" /\ mtx.globals = t1
        /\ pc[t2] = "load_bind" /\ loc[t2].fname = "A.co" /\ loc[t2].i = 1

\* C15: a call of load-from-memory, get-function or get-global that was
\* given a null image, name, module or output pointer has returned
\* hipErrorInvalidValue and has written nothing.
C15_NullInputIsInvalidValue ==
    ( /\ ret.op \in {"hipModuleLoadData", "hipModuleGetFunction",
                     "hipModuleGetGlobal"}
      /\ ret.arg \in {"NULL", NullName, "dptr", "hmod"} )
    => /\ ret.status = "hipErrorInvalidValue"
       /\ ret.out = "none"

LaunchEntries == {"hipModuleLaunchKernel", "hipHccModuleLaunchKernel"}

\* C16: no thread has dereferenced a null device context, and a call of
\* load-from-file, load-from-memory, get-function or launch (with no null
\* argument) by a thread without a device context has returned
\* hipErrorInvalidContext or hipErrorInvalidDevice; after such a load the
\* module has no executable and nothing of its load has failed in the
\* backend, after such a launch nothing was submitted.
C16_NoContextIsRejected ==
    /\ \A t \in Threads : pc[t] # "null_ctx_deref"
    /\ ( /\ ret.op \in LoadEntries \cup LaunchEntries
                       \cup {"hipModuleGetFunction"}
         /\ ret.arg # "NULL"
         /\ pc[ret.t] = "idle"
         /\ ~ctx[ret.t] )
       => /\ ret.status \in {"hipErrorInvalidContext", "hipErrorInvalidDevice"}
          /\ ret.op \in LoadEntries
             => /\ mods[h[ret.t]].exec = "invalid"
                /\ mods[h[ret.t]].failed = ""
          /\ (ret.op \in LaunchEntries /\ last.called /\ last.t = ret.t)
             => ~last.submitted

\* C17: a get-global call made with an active device context for the name
\* the image does not contain has returned hipErrorNotFound and written
\* nothing through dptr, and no such call has read through its unassigned
\* Function pointer.
C17_GetGlobalAbsentIsNotFound ==
    /\ (ret.op = "hipModuleGetGlobal" /\ ret.arg = AbsentName /\ ctx[ret.t])
       => /\ ret.status = "hipErrorNotFound"
          /\ ret.out = "none"
    /\ \A t \in Threads :
          (pc[t] = "uninit_func_deref" /\ ctx[t]) => loc[t].name # AbsentName

\* The functions in the cache of module m.
Cached(m) == {mods[m].funcTrack[k] : k \in 1..Len(mods[m].funcTrack)}

\* C18: with one call at a time, a module whose load had no failing step
\* and that has been unloaded has its executable destroyed and every
\* function of its cache freed, each cached once and cached by no other
\* module; and a load that has just returned hipSuccess with no failing
\* step has handed out a live module that is none of the unloaded ones,
\* with a frozen executable of its own and an empty cache.
C18_LoadUnloadLoadIndependent ==
    /\ \A m \in ModIds :
          (mods[m].state = "deleted" /\ mods[m].failed = "") =>
             /\ mods[m].exec = "destroyed"
             /\ \A f \in Cached(m) : funcs[f].state = "freed" /\ funcs[f].mod = m
             /\ Cardinality(Cached(m)) = Len(mods[m].funcTrack)
             /\ \A m2 \in ModIds \ {m} : Cached(m) \cap Cached(m2) = {}
    /\ (/\ ret.op \in LoadEntries
        /\ ret.status = "hipSuccess"
        /\ \A t \in Threads : pc[t] = "idle"
        /\ h[ret.t] \in ModIds
        /\ mods[h[ret.t]].failed = "")
       => /\ mods[h[ret.t]].state = "live"
          /\ mods[h[ret.t]].exec = "frozen"
          /\ mods[h[ret.t]].funcTrack = <<>>
          /\ mods[h[ret.t]].image = ret.arg

\* A module loaded from A.co has had a function cached and has been
\* unloaded, and a second load of A.co has just returned hipSuccess with
\* another module.
C18_Witness ==
    /\ ret.op = "hipModuleLoad" /\ ret.arg = "A.co"
    /\ ret.status = "hipSuccess"
    /\ \A t \in Threads : pc[t] = "idle"
    /\ h[ret.t] \in ModIds
    /\ mods[h[ret.t]].exec = "frozen"
    /\ \E m \in ModIds \ {h[ret.t]} :
          /\ mods[m].state = "deleted" /\ mods[m].failed = ""
          /\ mods[m].image = "A.co"
          /\ mods[m].funcTrack # <<>>

\* C19: every dispatch in flight refers to a module that has not been
\* deleted and whose executable has not been destroyed.
C19_NoDispatchAgainstDestroyed ==
    \A d \in inflight :
        /\ mods[d.mod].exec # "destroyed"
        /\ mods[d.mod].state # "deleted"

\* The end in the file of section header sh: a placeholder section takes
\* no room.
SectionEnd(sh) ==
    sh.sh_offset + (IF sh.sh_type = "SHT_NOBITS" THEN 0 ELSE sh.sh_size)

\* The largest of a non-empty set of numbers.
Largest(S) == CHOOSE x \in S : \A y \in S : y <= x

\* The table with its section headers in the opposite order.
Reversed(emi) ==
    [emi EXCEPT !.shdr = [i \in 1..Len(emi.shdr) |->
                             emi.shdr[Len(emi.shdr) + 1 - i]]]

\* C20: the size ElfSize has returned for a table with sections is at
\* least the end of every section, it is the largest section end when the
\* section-header table itself ends no later than that, and it is what
\* ElfSize returns for the same sections in the opposite order.
C20_ElfSizeIsLargestSectionEnd ==
    (elf.called /\ elf.emi.shdr # <<>>) =>
        LET ends == {SectionEnd(elf.emi.shdr[i]) : i \in 1..Len(elf.emi.shdr)}
            tableEnd == elf.emi.e_shoff
                          + elf.emi.e_shentsize * Len(elf.emi.shdr)
        IN /\ \A e \in ends : e <= elf.size
           /\ tableEnd <= Largest(ends) => elf.size = Largest(ends)
           /\ elf.size = ElfSize(Reversed(elf.emi))

\* The 32-bit number z is the product of the 32-bit numbers x and y, each
\* a pair of 16-bit halves: the product needs no more than 32 bits and z
\* holds them.
IsProduct(z, x, y) ==
    /\ x[1] = 0 \/ y[1] = 0
    /\ Hi16Mul(x[1], y[2]) = 0
    /\ Hi16Mul(x[2], y[1]) = 0
    /\ LET mid == Lo16Mul(x[1], y[2]) + Lo16Mul(x[2], y[1])
                    + Hi16Mul(x[2], y[2])
       IN /\ mid < 65536
          /\ z = <<mid, Lo16Mul(x[2], y[2])>>

\* C21: the last launch through hipModuleLaunchKernel has handed
\* ihipModuleLaunchKernel, in each dimension, the product of blockDim and
\* gridDim as the global size and blockDim as the local size, and no
\* event; the last launch through hipHccModuleLaunchKernel has handed on
\* its global and local sizes and its events as given.
C21_GeometryNormalization ==
    /\ (last.called /\ ret.op = "hipModuleLaunchKernel") =>
          /\ \A d \in 1..3 :
                IsProduct(last.args.global[d], last.args.api.blockDim[d],
                          last.args.api.gridDim[d])
          /\ last.args.local = last.args.api.blockDim
          /\ ~last.args.startEvent /\ ~last.args.stopEvent
    /\ (last.called /\ ret.op = "hipHccModuleLaunchKernel") =>
          /\ last.args.global = last.args.api.gridDim
          /\ last.args.local = last.args.api.blockDim
          /\ last.args.startEvent = last.args.api.startEvent
          /\ last.args.stopEvent = last.args.api.stopEvent

\* C22: no step changes the layout table: it has the same names with the
\* same layouts after every launch as before it.
C22_LayoutTableIsReadOnly ==
    [][/\ DOMAIN kernelArguments' = DOMAIN kernelArguments
       /\ \A name \in DOMAIN kernelArguments :
             kernelArguments'[name] = kernelArguments[name]]_vars

\* Byte j of the buffer lies in the range the packer copies parameter i
\* to: the Size[i] bytes from the sum of the strides before i.
InCopyRange(pl, i, j) ==
    j > Offset(pl, i) /\ j <= Offset(pl, i) + pl.Size[i]

\* C23: after a positional launch with a layout whose strides are at
\* least its sizes and whose totalSize is the sum of its strides, the
\* buffer has totalSize bytes, no copy has written past its end, the
\* cursor has ended at the sum of the strides, which is at most
\* totalSize, every copy range ends at or before totalSize, and every
\* byte outside the copy ranges is still the zero memset put there.
C23_PackingStaysInsideBuffer ==
    (/\ last.called /\ last.submitted /\ last.mode = "positional"
     /\ WellFormed(last.layout))
    => LET pl == last.layout
           bytes == last.packet.kernarg.bytes
       IN /\ Len(bytes) = pl.totalSize
          /\ ~last.oob
          /\ last.index = SumAlign(pl, Len(pl.Size))
          /\ last.index <= pl.totalSize
          /\ \A i \in 1..Len(pl.Size) :
                Offset(pl, i) + pl.Size[i] <= pl.totalSize
          /\ \A j \in 1..Len(bytes) :
                (\A i \in 1..Len(pl.Size) : ~InCopyRange(pl, i, j))
                => bytes[j] = 0

\* A layout of two parameters was packed whose last copy ends on the last
\* byte of the buffer, and one whose first parameter is followed by a
\* byte of padding.
C23_Witness ==
    /\ last.called /\ last.submitted /\ last.mode = "positional"
    /\ WellFormed(last.layout)
    /\ Len(last.layout.Size) = MaxParams
    /\ last.layout.Size[1] < last.layout.Align[1]
    /\ last.layout.Size[MaxParams] = last.layout.Align[MaxParams]
    /\ last.index = last.layout.totalSize
    /\ last.packet.kernarg.bytes[last.layout.totalSize] # 0
    /\ last.packet.kernarg.bytes[last.layout.Size[1] + 1] = 0

====
